---- MODULE Spec2Model ----
(***************************************************************************)
(* A model of bot.py: the symbol interner (get_or_create_id), the startup  *)
(* load of DATA_TABLE, the three-level navigation of handle_button_press,  *)
(* and the channel lifecycle (grant, audit post, schedule_kick_user).      *)
(*                                                                         *)
(* Python strings are sequences of code points, so that sorted() and the   *)
(* payload formatting and parsing are computed rather than assumed.        *)
(* Coroutines are split at their await points.                             *)
(***************************************************************************)
EXTENDS Integers, Sequences, FiniteSets, TLC

VARIABLES
    DATA_TABLE,         \* the loaded rows, in file order
    STRING_TO_ID_MAP,   \* str -> int
    ID_TO_STRING_MAP,   \* int -> str
    next_id,            \* next free id
    loadPos,            \* rows of DATA_TABLE the startup loop has interned
    CHANNEL_CHAT_ID,    \* configured channel ("" when unset)
    ADMIN_CHAT_ID,      \* configured administrator id ("" when unset)
    request,            \* navigation: the last callback_data handled, and whether
                        \* every press since the menu was on a button just sent
    reply,              \* navigation: what the handler answered
    handlers,           \* in-flight handle_button_press coroutines, by slot
    kickTasks,          \* the schedule_kick_user tasks created so far
    now,                \* the event loop's clock, in seconds
    interactions,       \* the interactions received so far: who, and when
    process,            \* the process: where startup stands, and the load error caught
    welcomed_users,     \* the users greeted in this process lifetime (line 96)
    msgHandlers,        \* in-flight handle_message and start coroutines, by slot
    greetings,          \* per user: greetings delivered for text messages since /start
    updates             \* text messages and /start commands received so far

vars == <<DATA_TABLE, STRING_TO_ID_MAP, ID_TO_STRING_MAP, next_id, loadPos,
          CHANNEL_CHAT_ID, ADMIN_CHAT_ID, request, reply, handlers, kickTasks,
          now, interactions, process, welcomed_users, msgHandlers, greetings,
          updates>>

symVars == <<STRING_TO_ID_MAP, ID_TO_STRING_MAP, next_id>>
lifeVars == <<handlers, kickTasks, now, interactions>>
navVars == <<request, reply>>
cfgVars == <<CHANNEL_CHAT_ID, ADMIN_CHAT_ID>>
welcomeVars == <<welcomed_users, msgHandlers, greetings, updates>>

(***************************************************************************)
(* Bounds of the model.                                                    *)
(***************************************************************************)
MaxRows == 2        \* rows of a table in the navigation specification
MaxForgedId == 3    \* forged payloads carry ids in -1..MaxForgedId
MaxInFlight == 2    \* handler coroutines in flight at once
MaxStarts == 2      \* interactions received in one run of the lifecycle
TickSeconds == 1800 \* the clock advances in steps of this many seconds
MaxTime == 0        \* no new interaction arrives after this time
LateTickSeconds == 900  \* the clock's step where a second selection comes later
LateMaxTime == 900      \* no new selection arrives after this time there
MaxUpdates == 4     \* text messages and /start commands in one run of the greeting
RateLimitN == 1     \* the N of the rate limit the specification asks for

(***************************************************************************)
(* Strings.                                                                *)
(***************************************************************************)
EmptyStr == <<>>
StrA == <<65>>
StrB == <<66>>
Colon == <<58>>

LEVEL_KEY == <<107, 101, 121>>          \* "key"
LEVEL_REP1 == <<114, 101, 112, 49>>     \* "rep1"
LEVEL_REP2 == <<114, 101, 112, 50>>     \* "rep2"
LevelBogus == <<120>>                   \* "x": no level, and no integer

\* "情報が見つかりません。" (line 233)
NOT_FOUND_TEXT == <<24773, 22577, 12364, 35211, 12388, 12363, 12426, 12414,
                    12379, 12435, 12290>>

KICK_DELAY_SECONDS == 30 * 60

\* Python's str < str: lexicographic by code point.
RECURSIVE StrLess(_, _)
StrLess(a, b) ==
    IF a = <<>> THEN b # <<>>
    ELSE IF b = <<>> THEN FALSE
    ELSE IF Head(a) = Head(b) THEN StrLess(Tail(a), Tail(b))
    ELSE Head(a) < Head(b)

\* The unordered sorted() would be: the mutant keeps an arbitrary (here the
\* descending) order of the set.
RECURSIVE SortedListUnsorted(_)
SortedListUnsorted(S) ==
    IF S = {} THEN <<>>
    ELSE LET m == CHOOSE x \in S : \A y \in S : x = y \/ StrLess(y, x)
         IN  <<m>> \o SortedListUnsorted(S \ {m})

\* sorted(list(S)) for a set of strings.
RECURSIVE SortedList(_)
SortedList(S) ==
    IF S = {} THEN <<>>
    ELSE LET m == CHOOSE x \in S : \A y \in S : x = y \/ StrLess(x, y)
         IN  <<m>> \o SortedList(S \ {m})

\* str(n) for an int.
RECURSIVE DigitsOf(_)
DigitsOf(n) ==
    IF n < 10 THEN <<48 + n>> ELSE DigitsOf(n \div 10) \o <<48 + (n % 10)>>

IntToStr(n) == IF n < 0 THEN <<45>> \o DigitsOf(-n) ELSE DigitsOf(n)

IsDigits(s) == s # <<>> /\ \A i \in DOMAIN s : s[i] \in 48..57

\* Whether int(s) succeeds: an optional sign and decimal digits.  (Python also
\* accepts surrounding blanks and underscores between digits; no payload of
\* the model carries them.)
IsInt(s) ==
    \/ IsDigits(s)
    \/ s # <<>> /\ Head(s) \in {43, 45} /\ IsDigits(Tail(s))

RECURSIVE DigitsValue(_, _)
DigitsValue(s, acc) ==
    IF s = <<>> THEN acc ELSE DigitsValue(Tail(s), 10 * acc + (Head(s) - 48))

StrToInt(s) ==
    IF Head(s) = 45 THEN 0 - DigitsValue(Tail(s), 0)
    ELSE IF Head(s) = 43 THEN DigitsValue(Tail(s), 0)
    ELSE DigitsValue(s, 0)

\* s.split(':')
RECURSIVE SplitColon(_, _, _)
SplitColon(s, cur, acc) ==
    IF s = <<>> THEN Append(acc, cur)
    ELSE IF Head(s) = 58 THEN SplitColon(Tail(s), <<>>, Append(acc, cur))
    ELSE SplitColon(Tail(s), Append(cur, Head(s)), acc)

(***************************************************************************)
(* The symbol interner.  A symbol table is [s2i, i2s, nxt].                *)
(***************************************************************************)
SymTable == [s2i |-> STRING_TO_ID_MAP, i2s |-> ID_TO_STRING_MAP, nxt |-> next_id]

EmptySymTable == [s2i |-> <<>>, i2s |-> <<>>, nxt |-> 0]

\* A get_or_create_id that forgets to advance next_id.
InternNoAdvance(st, text) ==
    IF text \notin DOMAIN st.s2i
    THEN [s2i |-> (text :> st.nxt) @@ st.s2i,
          i2s |-> (st.nxt :> text) @@ st.i2s,
          nxt |-> st.nxt]
    ELSE st

\* The effect of get_or_create_id(text) on the tables (lines 37-40).
Intern(st, text) ==
    IF text \notin DOMAIN st.s2i
    THEN [s2i |-> (text :> st.nxt) @@ st.s2i,
          i2s |-> (st.nxt :> text) @@ st.i2s,
          nxt |-> st.nxt + 1]
    ELSE st

\* get_or_create_id(text): the tables afterwards and the id returned.
get_or_create_id(st, text) ==
    LET st2 == Intern(st, text) IN [st |-> st2, id |-> st2.s2i[text]]

\* The mutant leaves the Rep2 column to the handlers.
InternRowSkipsRep2(st, row) ==
    Intern(Intern(st, row.Key), row.Rep1)

\* One iteration of the startup loop (lines 54-57).
InternRow(st, row) ==
    Intern(Intern(Intern(st, row.Key), row.Rep1), row.Rep2)

\* The mutant resolves an unknown id to the empty string.
IdGetOrEmpty(st, id, default) == IF id \in DOMAIN st.i2s THEN st.i2s[id] ELSE EmptyStr

\* ID_TO_STRING_MAP.get(id, default)
IdGet(st, id, default) == IF id \in DOMAIN st.i2s THEN st.i2s[id] ELSE default

(***************************************************************************)
(* Buttons and payloads.                                                   *)
(***************************************************************************)
Button(text, data) == [text |-> text, callback_data |-> data]

\* f"{LEVEL_KEY}:{key_val_id}::" (line 108)
KeyCallbackData(key_id) ==
    LEVEL_KEY \o Colon \o IntToStr(key_id) \o Colon \o Colon

\* The mutant writes the two ids in the wrong order.
Rep1CallbackDataSwapped(key_id, rep1_id) ==
    LEVEL_REP1 \o Colon \o IntToStr(rep1_id) \o Colon \o IntToStr(key_id) \o Colon

\* f"{LEVEL_REP1}:{selected_key_id}:{rep1_val_id}:" (line 191)
Rep1CallbackData(key_id, rep1_id) ==
    LEVEL_REP1 \o Colon \o IntToStr(key_id) \o Colon \o IntToStr(rep1_id) \o Colon

\* f"{LEVEL_REP2}:{selected_key_id}:{selected_rep1_id}:{rep2_val_id}" (line 217)
Rep2CallbackData(key_id, rep1_id, rep2_id) ==
    LEVEL_REP2 \o Colon \o IntToStr(key_id) \o Colon \o IntToStr(rep1_id)
        \o Colon \o IntToStr(rep2_id)

\* (query.data.split(':') + ['', '', '', ''])[:4] (line 169)
DataParts(data) ==
    SubSeq(SplitColon(data, <<>>, <<>>) \o <<EmptyStr, EmptyStr, EmptyStr, EmptyStr>>, 1, 4)

\* int(part) if part else -1; int() raises ValueError on anything else.
PartIsValid(part) == part = EmptyStr \/ IsInt(part)
PartId(part) == IF part # EmptyStr THEN StrToInt(part) ELSE -1

\* Lines 169-173: the decoded payload, or the ValueError of int().
ParseData(data) ==
    LET parts == DataParts(data) IN
    IF \A i \in 2..4 : PartIsValid(parts[i])
    THEN [raised |-> FALSE, level |-> parts[1], key_id |-> PartId(parts[2]),
          rep1_id |-> PartId(parts[3]), rep2_id |-> PartId(parts[4])]
    ELSE [raised |-> TRUE, level |-> parts[1], key_id |-> -1,
          rep1_id |-> -1, rep2_id |-> -1]

\* Lines 175-177: what the ids stand for on display.
KeyDisplay(st, id) == IdGet(st, id, <<73, 68, 95, 75, 101, 121, 58>> \o IntToStr(id))
Rep1Display(st, id) ==
    IF id # -1 THEN IdGet(st, id, <<73, 68, 95, 82, 101, 112, 49, 58>> \o IntToStr(id))
    ELSE EmptyStr
Rep2Display(st, id) ==
    IF id # -1 THEN IdGet(st, id, <<73, 68, 95, 82, 101, 112, 50, 58>> \o IntToStr(id))
    ELSE EmptyStr

(***************************************************************************)
(* Navigation.  Each scan threads the symbol table through its            *)
(* get_or_create_id calls, as the code does.                              *)
(***************************************************************************)
\* The mutant keeps the empty Key.
InitialKeysWithEmpty(table) == {table[i].Key : i \in DOMAIN table}

\* Lines 100-103: the distinct non-empty Key values.
InitialKeys(table) == {table[i].Key : i \in DOMAIN table} \ {EmptyStr}

\* Lines 105-108: one button per value, in the order given.
RECURSIVE KeyButtons(_, _, _)
KeyButtons(st, vals, acc) ==
    IF vals = <<>> THEN [st |-> st, keyboard |-> acc]
    ELSE LET r == get_or_create_id(st, Head(vals))
         IN  KeyButtons(r.st, Tail(vals),
                        Append(acc, Button(Head(vals), KeyCallbackData(r.id))))

\* send_initial_key_buttons (lines 99-113), up to its reply.
send_initial_key_buttons(st, table) ==
    LET kb == KeyButtons(st, SortedList(InitialKeys(table)), <<>>)
    IN  [st |-> kb.st,
         reply |-> [kind |-> "menu", text |-> EmptyStr, keyboard |-> kb.keyboard]]

\* The mutant matches a row on its Key alone and keeps empty Rep1 values.
RECURSIVE ScanRep1KeepEmpty(_, _, _, _)
ScanRep1KeepEmpty(st, rows, key_id, acc) ==
    IF rows = <<>> THEN [st |-> st, vals |-> acc]
    ELSE LET row == Head(rows)
             r == get_or_create_id(st, row.Key)
         IN  ScanRep1KeepEmpty(r.st, Tail(rows), key_id,
                      IF r.id = key_id THEN acc \cup {row.Rep1} ELSE acc)

\* Lines 182-185.
RECURSIVE ScanRep1(_, _, _, _)
ScanRep1(st, rows, key_id, acc) ==
    IF rows = <<>> THEN [st |-> st, vals |-> acc]
    ELSE LET row == Head(rows)
             r == get_or_create_id(st, row.Key)
         IN  ScanRep1(r.st, Tail(rows), key_id,
                      IF r.id = key_id /\ row.Rep1 # EmptyStr
                      THEN acc \cup {row.Rep1} ELSE acc)

\* Lines 188-191.
RECURSIVE Rep1Buttons(_, _, _, _)
Rep1Buttons(st, vals, key_id, acc) ==
    IF vals = <<>> THEN [st |-> st, keyboard |-> acc]
    ELSE LET r == get_or_create_id(st, Head(vals))
         IN  Rep1Buttons(r.st, Tail(vals), key_id,
                 Append(acc, Button(Head(vals), Rep1CallbackData(key_id, r.id))))

\* Lines 207-211; `and` evaluates its second operand only when the first holds.
RECURSIVE ScanRep2(_, _, _, _, _)
ScanRep2(st, rows, key_id, rep1_id, acc) ==
    IF rows = <<>> THEN [st |-> st, vals |-> acc]
    ELSE LET row == Head(rows)
             r1 == get_or_create_id(st, row.Key)
             r2 == get_or_create_id(r1.st, row.Rep1)
         IN  IF r1.id # key_id
             THEN ScanRep2(r1.st, Tail(rows), key_id, rep1_id, acc)
             ELSE ScanRep2(r2.st, Tail(rows), key_id, rep1_id,
                           IF r2.id = rep1_id /\ row.Rep2 # EmptyStr
                           THEN acc \cup {row.Rep2} ELSE acc)

\* Lines 214-217.
RECURSIVE Rep2Buttons(_, _, _, _, _)
Rep2Buttons(st, vals, key_id, rep1_id, acc) ==
    IF vals = <<>> THEN [st |-> st, keyboard |-> acc]
    ELSE LET r == get_or_create_id(st, Head(vals))
         IN  Rep2Buttons(r.st, Tail(vals), key_id, rep1_id,
                 Append(acc, Button(Head(vals),
                                    Rep2CallbackData(key_id, rep1_id, r.id))))

\* The mutant has no break: the last matching row wins.
RECURSIVE FindRep3NoBreak(_, _, _, _, _, _)
FindRep3NoBreak(st, rows, key_id, rep1_id, rep2_id, found) ==
    IF rows = <<>> THEN [st |-> st, text |-> found]
    ELSE LET row == Head(rows)
             r1 == get_or_create_id(st, row.Key)
             r2 == get_or_create_id(r1.st, row.Rep1)
             r3 == get_or_create_id(r2.st, row.Rep2)
         IN  IF r1.id # key_id
             THEN FindRep3NoBreak(r1.st, Tail(rows), key_id, rep1_id, rep2_id, found)
             ELSE IF r2.id # rep1_id
             THEN FindRep3NoBreak(r2.st, Tail(rows), key_id, rep1_id, rep2_id, found)
             ELSE FindRep3NoBreak(r3.st, Tail(rows), key_id, rep1_id, rep2_id,
                                  IF r3.id = rep2_id THEN row.Rep3 ELSE found)

\* Lines 233-239: the Rep3 of the first row whose three ids match.
RECURSIVE FindRep3(_, _, _, _, _, _)
FindRep3(st, rows, key_id, rep1_id, rep2_id, found) ==
    IF rows = <<>> THEN [st |-> st, text |-> found]
    ELSE LET row == Head(rows)
             r1 == get_or_create_id(st, row.Key)
             r2 == get_or_create_id(r1.st, row.Rep1)
             r3 == get_or_create_id(r2.st, row.Rep2)
         IN  IF r1.id # key_id
             THEN FindRep3(r1.st, Tail(rows), key_id, rep1_id, rep2_id, found)
             ELSE IF r2.id # rep1_id
             THEN FindRep3(r2.st, Tail(rows), key_id, rep1_id, rep2_id, found)
             ELSE IF r3.id # rep2_id
             THEN FindRep3(r3.st, Tail(rows), key_id, rep1_id, rep2_id, found)
             ELSE [st |-> r3.st, text |-> row.Rep3]

\* The LEVEL_KEY branch (lines 181-204), up to the message it sends.
KeyLevel(st, table, key_id) ==
    LET scan == ScanRep1(st, table, key_id, {})
        kb == Rep1Buttons(scan.st, SortedList(scan.vals), key_id, <<>>)
    IN  IF scan.vals # {}
        THEN [st |-> kb.st,
              reply |-> [kind |-> "next", text |-> KeyDisplay(st, key_id),
                         keyboard |-> kb.keyboard]]
        ELSE [st |-> scan.st,
              reply |-> [kind |-> "no_info", text |-> KeyDisplay(st, key_id),
                         keyboard |-> <<>>]]

\* The LEVEL_REP1 branch (lines 206-230), up to the message it sends.
Rep1Level(st, table, key_id, rep1_id) ==
    LET scan == ScanRep2(st, table, key_id, rep1_id, {})
        kb == Rep2Buttons(scan.st, SortedList(scan.vals), key_id, rep1_id, <<>>)
    IN  IF scan.vals # {}
        THEN [st |-> kb.st,
              reply |-> [kind |-> "next", text |-> Rep1Display(st, rep1_id),
                         keyboard |-> kb.keyboard]]
        ELSE [st |-> scan.st,
              reply |-> [kind |-> "no_info", text |-> Rep1Display(st, rep1_id),
                         keyboard |-> <<>>]]

\* The LEVEL_REP2 branch up to the message showing the value (lines 232-250).
Rep2Level(st, table, key_id, rep1_id, rep2_id) ==
    LET f == FindRep3(st, table, key_id, rep1_id, rep2_id, NOT_FOUND_TEXT)
    IN  [st |-> f.st,
         reply |-> [kind |-> "terminal", text |-> f.text, keyboard |-> <<>>]]

\* handle_button_press from the decoding of query.data to the first message
\* it sends to the user (lines 169-250 and 342-347).
ButtonReply(st, table, data) ==
    LET p == ParseData(data) IN
    IF p.raised
    THEN [st |-> st, reply |-> [kind |-> "raised", text |-> EmptyStr, keyboard |-> <<>>]]
    ELSE IF p.level = LEVEL_KEY THEN KeyLevel(st, table, p.key_id)
    ELSE IF p.level = LEVEL_REP1 THEN Rep1Level(st, table, p.key_id, p.rep1_id)
    ELSE IF p.level = LEVEL_REP2
         THEN Rep2Level(st, table, p.key_id, p.rep1_id, p.rep2_id)
    ELSE [st |-> st, reply |-> [kind |-> "unknown", text |-> EmptyStr, keyboard |-> <<>>]]

(***************************************************************************)
(* State shared by the specifications.                                     *)
(***************************************************************************)
Slots == 1..MaxInFlight
Users == {1, 2}
NoInstruction == [base |-> "", link |-> "none", audit_failed |-> FALSE]
IdleHandler ==
    [pc |-> "idle", user |-> 0, data |-> EmptyStr, text |-> EmptyStr,
     member |-> FALSE, instr |-> NoInstruction, added |-> FALSE, audits |-> 0,
     kick |-> FALSE, final |-> "none", raisedAt |-> "none"]
NoRequest == [type |-> "none", data |-> EmptyStr, honest |-> TRUE]
NoReply == [kind |-> "none", text |-> EmptyStr, keyboard |-> <<>>]
IdleMsgHandler == [pc |-> "idle", kind |-> "none", user |-> 0, sent |-> "none"]

\* The process is alive: the file was read (line 51) and no SystemExit was raised.
Alive == process.phase = "alive"
NoLoadError == [phase |-> "alive", error |-> "none"]

\* The startup loop is over, so the module goes on to serve (lines 58, 508-510).
Loaded == Alive /\ loadPos = Len(DATA_TABLE)

SetSymTable(st) ==
    /\ STRING_TO_ID_MAP' = st.s2i
    /\ ID_TO_STRING_MAP' = st.i2s
    /\ next_id' = st.nxt

\* The state when the module starts to execute: nothing interned (lines 29-33,
\* 96), DATA_TABLE as read from the file (line 51).
InitGlobals(table, channel, admin) ==
    /\ DATA_TABLE = table
    /\ STRING_TO_ID_MAP = <<>>
    /\ ID_TO_STRING_MAP = <<>>
    /\ next_id = 0
    /\ loadPos = 0
    /\ CHANNEL_CHAT_ID = channel
    /\ ADMIN_CHAT_ID = admin
    /\ request = NoRequest
    /\ reply = NoReply
    /\ handlers = [s \in Slots |-> IdleHandler]
    /\ kickTasks = <<>>
    /\ now = 0
    /\ interactions = <<>>
    /\ welcomed_users = {}
    /\ msgHandlers = [s \in Slots |-> IdleMsgHandler]
    /\ greetings = [u \in Users |-> 0]
    /\ updates = 0

InitWith(table, channel, admin) ==
    /\ InitGlobals(table, channel, admin)
    /\ process = NoLoadError

\* One iteration of the startup loop over DATA_TABLE (lines 54-57).
LoadRow ==
    /\ Alive
    /\ loadPos < Len(DATA_TABLE)
    /\ SetSymTable(InternRow(SymTable, DATA_TABLE[loadPos + 1]))
    /\ loadPos' = loadPos + 1
    /\ UNCHANGED <<DATA_TABLE, cfgVars, process, welcomeVars, navVars, lifeVars>>

(***************************************************************************)
(* The navigation specification: every table of at most MaxRows rows over  *)
(* the cell values "", "A", "B"; one handler at a time, no platform        *)
(* failure, no channel.                                                    *)
(***************************************************************************)
NavStrs == {EmptyStr, StrA, StrB}

\* Row i carries the terminal value "10i", so that any two rows differ.
TerminalOf(i) == <<49, 48, 48 + i>>

NavTables ==
    UNION {{[i \in 1..n |-> [Key |-> c[i][1], Rep1 |-> c[i][2], Rep2 |-> c[i][3],
                            Rep3 |-> TerminalOf(i)]] :
               c \in [1..n -> NavStrs \X NavStrs \X NavStrs]} : n \in 0..MaxRows}

\* A token of a forged payload: the bot's own format leaves an unused level empty.
ForgedToken(i) == IF i = -1 THEN EmptyStr ELSE IntToStr(i)
ForgedIds == -1..MaxForgedId

ForgedPayloads ==
    {LEVEL_KEY \o Colon \o ForgedToken(k) \o Colon \o Colon : k \in ForgedIds}
    \cup {LEVEL_REP1 \o Colon \o ForgedToken(k) \o Colon \o ForgedToken(a) \o Colon :
             k \in ForgedIds, a \in ForgedIds}
    \cup {LEVEL_REP2 \o Colon \o ForgedToken(k) \o Colon \o ForgedToken(a)
             \o Colon \o ForgedToken(b) : k \in ForgedIds, a \in ForgedIds, b \in ForgedIds}

MalformedPayloads ==
    { LevelBogus \o Colon \o <<48>> \o Colon \o Colon,          \* "x:0::"
      LEVEL_KEY \o Colon \o LevelBogus \o Colon \o Colon,       \* "key:x::"
      LEVEL_KEY,                                                \* "key"
      LEVEL_REP1 \o Colon \o <<48>> \o Colon \o <<45, 49>> \o Colon,   \* "rep1:0:-1:"
      EmptyStr }

EmittedPayloads == {reply.keyboard[i].callback_data : i \in DOMAIN reply.keyboard}

\* A handler keeps nothing between two presses, so a forged payload is tried
\* once, before the first press of a session.
InboundPayloads ==
    EmittedPayloads
    \cup (IF request.type # "button" THEN ForgedPayloads \cup MalformedPayloads ELSE {})

\* send_initial_key_buttons, as start and handle_message call it.
NavStart ==
    /\ Loaded
    /\ LET r == send_initial_key_buttons(SymTable, DATA_TABLE) IN
         /\ SetSymTable(r.st)
         /\ reply' = r.reply
    /\ request' = [type |-> "start", data |-> EmptyStr, honest |-> TRUE]
    /\ UNCHANGED <<DATA_TABLE, loadPos, cfgVars, process, welcomeVars, lifeVars>>

\* handle_button_press on one payload, to the first message it sends.
NavPress ==
    /\ Loaded
    /\ \E data \in InboundPayloads :
         LET r == ButtonReply(SymTable, DATA_TABLE, data) IN
           /\ SetSymTable(r.st)
           /\ reply' = r.reply
           /\ request' = [type |-> "button", data |-> data,
                           honest |-> request.honest /\ data \in EmittedPayloads]
    /\ UNCHANGED <<DATA_TABLE, loadPos, cfgVars, process, welcomeVars, lifeVars>>

Init == \E t \in NavTables : InitWith(t, EmptyStr, EmptyStr)

Next == LoadRow \/ NavStart \/ NavPress

Spec == Init /\ [][Next]_vars

(***************************************************************************)
(* Vocabulary of the navigation claims.  A decoded id stands for the       *)
(* string ID_TO_STRING_MAP holds for it; an id the map does not hold (-1   *)
(* included) stands for nothing and equals no cell.                        *)
(***************************************************************************)
Labels(keyboard) == [i \in DOMAIN keyboard |-> keyboard[i].text]
SeqRange(q) == {q[i] : i \in DOMAIN q}
Ascending(q) == \A i \in DOMAIN q : \A j \in DOMAIN q : i < j => StrLess(q[i], q[j])
Resolves(id) == id \in DOMAIN ID_TO_STRING_MAP
StandsFor(id, cell) == Resolves(id) /\ ID_TO_STRING_MAP[id] = cell
Pressed == ParseData(request.data)
PressedAt(level) ==
    request.type = "button" /\ ~Pressed.raised /\ Pressed.level = level
RowOrders(t) ==
    {[i \in DOMAIN t |-> t[p[i]]] :
        p \in {q \in [DOMAIN t -> DOMAIN t] : \A i, j \in DOMAIN t : q[i] = q[j] => i = j}}
RECURSIVE LoadAll(_, _)
LoadAll(st, rows) ==
    IF rows = <<>> THEN st ELSE LoadAll(InternRow(st, Head(rows)), Tail(rows))
MenuOf(t) == Labels(send_initial_key_buttons(LoadAll(EmptySymTable, t), t).reply.keyboard)

\* C7: the initial menu holds one button per distinct non-empty Key of the
\* table, in ascending order of the string, and the menu of every permutation
\* of the rows is the same.
C7_InitialMenuSortedDistinctKeys ==
    request.type = "start" =>
        /\ reply.kind = "menu"
        /\ Ascending(Labels(reply.keyboard))
        /\ SeqRange(Labels(reply.keyboard))
             = {DATA_TABLE[i].Key : i \in DOMAIN DATA_TABLE} \ {EmptyStr}
        /\ \A t \in RowOrders(DATA_TABLE) : MenuOf(t) = Labels(reply.keyboard)

\* C7 witness: a menu of two keys for a table that lists them in descending order.
C7_Witness ==
    /\ request.type = "start"
    /\ Len(DATA_TABLE) = 2
    /\ DATA_TABLE[1].Key = StrB
    /\ DATA_TABLE[2].Key = StrA
    /\ Labels(reply.keyboard) = <<StrA, StrB>>

ExpectedRep1(key_id) ==
    {DATA_TABLE[i].Rep1 : i \in {j \in DOMAIN DATA_TABLE :
        StandsFor(key_id, DATA_TABLE[j].Key)}} \ {EmptyStr}
ExpectedRep2(key_id, rep1_id) ==
    {DATA_TABLE[i].Rep2 : i \in {j \in DOMAIN DATA_TABLE :
        /\ StandsFor(key_id, DATA_TABLE[j].Key)
        /\ StandsFor(rep1_id, DATA_TABLE[j].Rep1)}} \ {EmptyStr}
OffersExactly(expected) ==
    /\ reply.kind # "raised"
    /\ Ascending(Labels(reply.keyboard))
    /\ SeqRange(Labels(reply.keyboard)) = expected
    /\ reply.kind = (IF expected = {} THEN "no_info" ELSE "next")

\* C8: a key-level press offers the distinct non-empty Rep1 values of the rows
\* whose Key is the string the key id stands for, and a rep1-level press the
\* distinct non-empty Rep2 values of the rows whose Key and Rep1 are the
\* strings the two ids stand for, each sorted by string; when there is none
\* the reply is the 'no information' message without buttons, and nothing is
\* raised.
C8_NextLevelButtons ==
    /\ PressedAt(LEVEL_KEY) => OffersExactly(ExpectedRep1(Pressed.key_id))
    /\ PressedAt(LEVEL_REP1) =>
           OffersExactly(ExpectedRep2(Pressed.key_id, Pressed.rep1_id))

\* C8 witness: a rep1-level press that offers two Rep2 values the table lists
\* in descending order.
C8_Witness ==
    /\ PressedAt(LEVEL_REP1)
    /\ Len(DATA_TABLE) = 2
    /\ DATA_TABLE[1].Rep2 = StrB
    /\ DATA_TABLE[2].Rep2 = StrA
    /\ Labels(reply.keyboard) = <<StrA, StrB>>

\* C8 witness of the dead end: a key-level press on an interned key whose rows
\* have no Rep1.
C8_WitnessDeadEnd ==
    /\ PressedAt(LEVEL_KEY)
    /\ Resolves(Pressed.key_id)
    /\ \E i \in DOMAIN DATA_TABLE : DATA_TABLE[i].Key = ID_TO_STRING_MAP[Pressed.key_id]
    /\ reply.kind = "no_info"

MatchingRows(key_id, rep1_id, rep2_id) ==
    {i \in DOMAIN DATA_TABLE :
        /\ StandsFor(key_id, DATA_TABLE[i].Key)
        /\ StandsFor(rep1_id, DATA_TABLE[i].Rep1)
        /\ StandsFor(rep2_id, DATA_TABLE[i].Rep2)}
FirstOf(S) == CHOOSE i \in S : \A j \in S : i <= j

\* C9: a rep2-level press shows the Rep3 of the first row, in table order,
\* whose Key, Rep1 and Rep2 are the strings the three ids stand for, and the
\* fixed 'not found' text when no row is; nothing is raised.
C9_TerminalOfFirstMatch ==
    PressedAt(LEVEL_REP2) =>
        LET m == MatchingRows(Pressed.key_id, Pressed.rep1_id, Pressed.rep2_id) IN
        /\ reply.kind = "terminal"
        /\ reply.text = (IF m = {} THEN NOT_FOUND_TEXT ELSE DATA_TABLE[FirstOf(m)].Rep3)

\* C9 witness: two rows match the press and the first one's value is shown.
C9_Witness ==
    /\ PressedAt(LEVEL_REP2)
    /\ MatchingRows(Pressed.key_id, Pressed.rep1_id, Pressed.rep2_id) = {1, 2}
    /\ reply.text = TerminalOf(1)

\* C9 witness of the other case: ids that stand for nothing show 'not found'.
C9_WitnessNotFound ==
    /\ PressedAt(LEVEL_REP2)
    /\ Pressed.key_id >= 0
    /\ ~Resolves(Pressed.key_id)
    /\ Len(DATA_TABLE) > 0
    /\ reply.text = NOT_FOUND_TEXT

Encountered ==
    UNION {{DATA_TABLE[i].Key, DATA_TABLE[i].Rep1, DATA_TABLE[i].Rep2} : i \in 1..loadPos}

C10_MutualInverses ==
    /\ DOMAIN ID_TO_STRING_MAP = 0..(next_id - 1)
    /\ \A s \in DOMAIN STRING_TO_ID_MAP :
          /\ STRING_TO_ID_MAP[s] \in DOMAIN ID_TO_STRING_MAP
          /\ ID_TO_STRING_MAP[STRING_TO_ID_MAP[s]] = s
    /\ \A i \in DOMAIN ID_TO_STRING_MAP :
          /\ ID_TO_STRING_MAP[i] \in DOMAIN STRING_TO_ID_MAP
          /\ STRING_TO_ID_MAP[ID_TO_STRING_MAP[i]] = i
    /\ \A s \in Encountered \ {EmptyStr} :
          /\ s \in DOMAIN STRING_TO_ID_MAP
          /\ IdGet(SymTable, get_or_create_id(SymTable, s).id, EmptyStr) = s
          /\ get_or_create_id(get_or_create_id(SymTable, s).st, s).id
               = get_or_create_id(SymTable, s).id

C10_NeverReassigned ==
    /\ \A s \in DOMAIN STRING_TO_ID_MAP :
          s \in DOMAIN STRING_TO_ID_MAP' /\ STRING_TO_ID_MAP'[s] = STRING_TO_ID_MAP[s]
    /\ \A i \in DOMAIN ID_TO_STRING_MAP :
          i \in DOMAIN ID_TO_STRING_MAP' /\ ID_TO_STRING_MAP'[i] = ID_TO_STRING_MAP[i]

\* C10: in every reachable state STRING_TO_ID_MAP and ID_TO_STRING_MAP are
\* inverses of each other, every non-empty string met so far resolves back to
\* itself and gets the same id when asked again; and no step takes an entry
\* away or gives an id or a string another partner.
C10_SymbolTableBijection == [](C10_MutualInverses) /\ [][C10_NeverReassigned]_vars

\* C10 witness: three strings interned by the load, and a handler has run on them.
C10_Witness ==
    /\ Loaded
    /\ next_id = 3
    /\ request.type = "button"
    /\ reply.kind = "next"

(***************************************************************************)
(* The channel lifecycle: handle_button_press at the rep2 level and         *)
(* schedule_kick_user, split at their await points.  Every platform call    *)
(* either returns or raises.  A handler record:                             *)
(*   pc        the await the coroutine is suspended at                      *)
(*   text      final_rep3_text                                              *)
(*   member    user_is_member_of_channel                                    *)
(*   instr     instruction_message_for_user: the message it starts with,    *)
(*             what the invite link added, what the audit failure added     *)
(*   added     set_chat_member was called                                   *)
(*   audits    how many times send_message to the channel was called        *)
(*   kick      asyncio.create_task(schedule_kick_user(...)) was called      *)
(*   final     the outcome of the final reply_text                          *)
(*   raisedAt  where an exception left the handler                          *)
(***************************************************************************)
ChannelId == <<45, 49, 48, 48>>      \* "-100"

\* Scenario A's rows under Tokyo/Koto; the load gives "A" id 0 and "B" id 1.
LifeTable ==
    << [Key |-> StrA, Rep1 |-> StrA, Rep2 |-> StrA, Rep3 |-> TerminalOf(1)],
       [Key |-> StrA, Rep1 |-> StrA, Rep2 |-> StrB, Rep3 |-> TerminalOf(2)] >>

\* The second row's button, and a payload whose last id matches no row.
LifePayloads == {Rep2CallbackData(0, 0, 1), Rep2CallbackData(0, 0, 2)}

MemberStatuses == {"member", "creator", "administrator", "restricted"}
ChatMemberStatuses == MemberStatuses \cup {"left", "kicked"}

\* What get_chat_member, set_chat_member can raise, by the except clause and
\* the message test that takes it (lines 273-311).
GrantErrors ==
    {"bad_request_user_not_found", "bad_request_already_member",
     "bad_request_other", "telegram_error", "exception"}

InFlight(h) == h.pc \notin {"idle", "done", "raised"}

NewHandler(u, data) == [IdleHandler EXCEPT !.pc = "answer", !.user = u, !.data = data]

\* An exception leaves the coroutine: its locals are gone.
Raise(h, where) ==
    [IdleHandler EXCEPT !.pc = "raised", !.user = h.user, !.raisedAt = where]

\* The mutant compares the wrong argument of schedule_kick_user.
IsAdminComparesChannel(uid) ==
    ADMIN_CHAT_ID # EmptyStr /\ CHANNEL_CHAT_ID = ADMIN_CHAT_ID

\* Line 145: the test schedule_kick_user makes before it sleeps.
IsAdmin(uid) == ADMIN_CHAT_ID # EmptyStr /\ IntToStr(uid) = ADMIN_CHAT_ID

\* Lines 169-250, after query.answer() returned: decode, look up, and go on
\* to show the value.
AfterAnswer(h, r) ==
    IF r.kind = "raised" THEN Raise(h, "decode")
    ELSE IF r.kind = "terminal"
    THEN [h EXCEPT !.pc = "show", !.text = r.text, !.data = EmptyStr]
    ELSE [h EXCEPT !.pc = "edit", !.data = EmptyStr]

\* The mutant runs the channel lifecycle for a matched row only.
AfterShowFoundOnly(h) ==
    IF CHANNEL_CHAT_ID # EmptyStr /\ h.text # NOT_FOUND_TEXT
    THEN [h EXCEPT !.pc = "get_member"]
    ELSE [h EXCEPT !.pc = "final", !.instr.base = "NO_CONFIG"]

\* Lines 252-255 and 329-331.
AfterShow(h) ==
    IF CHANNEL_CHAT_ID # EmptyStr THEN [h EXCEPT !.pc = "get_member"]
    ELSE [h EXCEPT !.pc = "final", !.instr.base = "NO_CONFIG"]

\* Lines 259-268: a member is not added again, anyone else is.
AfterGetMember(h, status) ==
    IF status \in MemberStatuses
    THEN [h EXCEPT !.pc = "audit", !.member = TRUE, !.instr.base = "ALREADY_MEMBER"]
    ELSE [h EXCEPT !.pc = "set_member", !.added = TRUE]

\* Lines 269-271.
AfterSetMember(h) ==
    [h EXCEPT !.pc = "audit", !.member = TRUE, !.instr.base = "SUCCESS"]

\* The mutant lets anything but a BadRequest or TelegramError leave the handler.
GrantErrorUncaught(h, e) ==
    IF e = "exception" THEN Raise(h, "grant")
    ELSE IF e = "bad_request_already_member"
    THEN [h EXCEPT !.pc = "audit", !.member = TRUE, !.instr.base = "ALREADY_MEMBER"]
    ELSE [h EXCEPT !.pc = "invite", !.instr.base = "FAIL"]

\* The mutant gives up on the whole lifecycle when the grant fails.
GrantErrorSkipsAudit(h, e) ==
    IF e = "bad_request_already_member"
    THEN [h EXCEPT !.pc = "audit", !.member = TRUE, !.instr.base = "ALREADY_MEMBER"]
    ELSE [h EXCEPT !.pc = "final", !.instr.base = "FAIL_ERROR"]

\* Lines 273-311: the three except clauses of the grant.
GrantError(h, e) ==
    IF e = "bad_request_user_not_found"
    THEN [h EXCEPT !.pc = "invite", !.instr.base = "FAIL_NOT_ADDED"]
    ELSE IF e = "bad_request_already_member"
    THEN [h EXCEPT !.pc = "audit", !.member = TRUE, !.instr.base = "ALREADY_MEMBER"]
    ELSE IF e = "exception"
    THEN [h EXCEPT !.pc = "invite", !.instr.base = "FAIL_GENERAL"]
    ELSE [h EXCEPT !.pc = "invite", !.instr.base = "FAIL_ERROR"]

\* Lines 286-291, 296-301, 306-311.
AfterInvite(h, ok) ==
    [h EXCEPT !.pc = "audit", !.instr.link = IF ok THEN "link" ELSE "no_link"]

\* Lines 321-324: the task is created inside the try of the audit post, after
\* send_message returned.
SchedulesKick(h, posted) == posted /\ h.member

\* The mutant awaits schedule_kick_user instead of creating a task for it.
AfterAuditAwaitsKick(h, posted) ==
    [h EXCEPT !.pc = IF SchedulesKick(h, posted) THEN "await_kick" ELSE "final",
              !.kick = SchedulesKick(h, posted),
              !.instr.audit_failed = ~posted]

\* Lines 313-328.
AfterAudit(h, posted) ==
    [h EXCEPT !.pc = "final",
              !.audits = h.audits + 1,
              !.kick = SchedulesKick(h, posted),
              !.instr.audit_failed = ~posted]

\* Lines 333-340: a failure of the final reply is logged and dropped.
AfterFinal(h, ok) ==
    [IdleHandler EXCEPT !.pc = "done", !.user = h.user,
                        !.final = IF ok THEN "sent" ELSE "failed"]

NewKickTask(uid) == [user |-> uid, pc |-> "created", wakeAt |-> 0, calledAt |-> 0]

\* The mutant exempts nobody.
KickSkipsNobody(uid) == FALSE

\* Lines 145-147: schedule_kick_user returns at once for the administrator.
KickSkips(uid) == IsAdmin(uid)

\* The mutant wakes whenever it is scheduled.
KickReadyAtOnce(task) == TRUE

\* The mutant counts the delay from the user's last selection: a task waits
\* for every sleeping task of its user.
KickReadyAfterLast(task) ==
    /\ now >= task.wakeAt
    /\ \A j \in DOMAIN kickTasks :
          (kickTasks[j].user = task.user /\ kickTasks[j].pc = "sleeping")
             => now >= kickTasks[j].wakeAt

\* Line 150: asyncio.sleep(KICK_DELAY_SECONDS) returns no earlier than that.
KickReady(task) == now >= task.wakeAt

FreeSlots == {s \in Slots : ~InFlight(handlers[s])}

\* A callback query arrives and the application starts handle_button_press on
\* it (line 392); the coroutine runs to `await query.answer()` (line 167).
PressUntil(u, data, last) ==
    /\ Loaded
    /\ Len(interactions) < MaxStarts
    /\ now <= last
    /\ FreeSlots # {}
    /\ LET s == CHOOSE x \in FreeSlots : \A y \in FreeSlots : x <= y IN
         handlers' = [handlers EXCEPT ![s] = NewHandler(u, data)]
    /\ interactions' = Append(interactions, [user |-> u, at |-> now])
    /\ UNCHANGED <<DATA_TABLE, symVars, loadPos, cfgVars, process, welcomeVars, navVars, kickTasks, now>>

Press(u, data) == PressUntil(u, data, MaxTime)

SetHandler(s, h) == handlers' = [handlers EXCEPT ![s] = h]

\* query.answer() returns, or raises out of the handler (line 167).
AnswerStep(s) ==
    /\ handlers[s].pc = "answer"
    /\ \/ /\ SetHandler(s, Raise(handlers[s], "answer"))
          /\ UNCHANGED symVars
       \/ \E r \in {ButtonReply(SymTable, DATA_TABLE, handlers[s].data)} :
            /\ SetSymTable(r.st)
            /\ SetHandler(s, AfterAnswer(handlers[s], r.reply))
    /\ UNCHANGED <<DATA_TABLE, loadPos, cfgVars, process, welcomeVars, navVars, kickTasks, now, interactions>>

\* query.edit_message_text of the value (lines 245-249).
ShowStep(s) ==
    /\ handlers[s].pc = "show"
    /\ \/ SetHandler(s, AfterShow(handlers[s]))
       \/ SetHandler(s, [handlers[s] EXCEPT !.pc = "show_retry"])
    /\ UNCHANGED <<DATA_TABLE, symVars, loadPos, cfgVars, process, welcomeVars, navVars, kickTasks, now,
                   interactions>>

\* The reply_text of the except clause (line 250) is in no try.
ShowRetryStep(s) ==
    /\ handlers[s].pc = "show_retry"
    /\ \/ SetHandler(s, AfterShow(handlers[s]))
       \/ SetHandler(s, Raise(handlers[s], "show"))
    /\ UNCHANGED <<DATA_TABLE, symVars, loadPos, cfgVars, process, welcomeVars, navVars, kickTasks, now,
                   interactions>>

\* context.bot.get_chat_member (line 257).
GetMemberStep(s) ==
    /\ handlers[s].pc = "get_member"
    /\ \/ \E status \in ChatMemberStatuses :
            SetHandler(s, AfterGetMember(handlers[s], status))
       \/ \E e \in GrantErrors : SetHandler(s, GrantError(handlers[s], e))
    /\ UNCHANGED <<DATA_TABLE, symVars, loadPos, cfgVars, process, welcomeVars, navVars, kickTasks, now,
                   interactions>>

\* context.bot.set_chat_member (lines 264-268).
SetMemberStep(s) ==
    /\ handlers[s].pc = "set_member"
    /\ \/ SetHandler(s, AfterSetMember(handlers[s]))
       \/ \E e \in GrantErrors : SetHandler(s, GrantError(handlers[s], e))
    /\ UNCHANGED <<DATA_TABLE, symVars, loadPos, cfgVars, process, welcomeVars, navVars, kickTasks, now,
                   interactions>>

\* context.bot.create_chat_invite_link.
InviteStep(s) ==
    /\ handlers[s].pc = "invite"
    /\ \E ok \in BOOLEAN : SetHandler(s, AfterInvite(handlers[s], ok))
    /\ UNCHANGED <<DATA_TABLE, symVars, loadPos, cfgVars, process, welcomeVars, navVars, kickTasks, now,
                   interactions>>

\* context.bot.send_message to the channel (lines 313-328).
AuditStep(s) ==
    /\ handlers[s].pc = "audit"
    /\ \E posted \in BOOLEAN :
         /\ SetHandler(s, AfterAudit(handlers[s], posted))
         /\ kickTasks' = IF SchedulesKick(handlers[s], posted)
                         THEN Append(kickTasks, NewKickTask(handlers[s].user))
                         ELSE kickTasks
    /\ UNCHANGED <<DATA_TABLE, symVars, loadPos, cfgVars, process, welcomeVars, navVars, now, interactions>>

\* query.message.reply_text of the instruction (lines 333-340).
FinalStep(s) ==
    /\ handlers[s].pc = "final"
    /\ \E ok \in BOOLEAN : SetHandler(s, AfterFinal(handlers[s], ok))
    /\ UNCHANGED <<DATA_TABLE, symVars, loadPos, cfgVars, process, welcomeVars, navVars, kickTasks, now,
                   interactions>>

HandlerStep(s) ==
    \/ AnswerStep(s)
    \/ ShowStep(s)
    \/ ShowRetryStep(s)
    \/ GetMemberStep(s)
    \/ SetMemberStep(s)
    \/ InviteStep(s)
    \/ AuditStep(s)
    \/ FinalStep(s)

SetKickTask(i, t) ==
    /\ kickTasks' = [kickTasks EXCEPT ![i] = t]
    /\ UNCHANGED <<DATA_TABLE, symVars, loadPos, cfgVars, process, welcomeVars, navVars, handlers, now,
                   interactions>>

\* The task's first run: lines 145-150, to the sleep.
KickStart(i) ==
    /\ kickTasks[i].pc = "created"
    /\ SetKickTask(i, IF KickSkips(kickTasks[i].user)
                      THEN [kickTasks[i] EXCEPT !.pc = "skipped"]
                      ELSE [kickTasks[i] EXCEPT !.pc = "sleeping",
                                                !.wakeAt = now + KICK_DELAY_SECONDS])

\* The sleep is over: unban_chat_member is called (lines 152-156).
KickCall(i) ==
    /\ kickTasks[i].pc = "sleeping"
    /\ KickReady(kickTasks[i])
    /\ SetKickTask(i, [kickTasks[i] EXCEPT !.pc = "calling", !.calledAt = now])

\* unban_chat_member returns or raises; both except clauses only log
\* (lines 157-162).
KickReturn(i) ==
    /\ kickTasks[i].pc = "calling"
    /\ \E res \in {"kicked", "telegram_error", "exception"} :
         SetKickTask(i, [NewKickTask(kickTasks[i].user) EXCEPT !.pc = "done"])

KickStep(i) == KickStart(i) \/ KickCall(i) \/ KickReturn(i)

\* Time passes, as long as a task waits for it.
TickBy(seconds) ==
    /\ \E i \in DOMAIN kickTasks :
         kickTasks[i].pc = "sleeping" /\ now < kickTasks[i].wakeAt
    /\ now' = now + seconds
    /\ UNCHANGED <<DATA_TABLE, symVars, loadPos, cfgVars, process, welcomeVars, navVars, handlers, kickTasks,
                   interactions>>

Tick == TickBy(TickSeconds)

LifeInit ==
    \E channel \in {EmptyStr, ChannelId} : \E admin \in {EmptyStr, IntToStr(1)} :
        InitWith(LifeTable, channel, admin)

LifeNext ==
    \/ LoadRow
    \/ \E u \in Users : \E data \in LifePayloads : Press(u, data)
    \/ \E s \in Slots : HandlerStep(s)
    \/ \E i \in DOMAIN kickTasks : KickStep(i)
    \/ Tick

LifeSpec == LifeInit /\ [][LifeNext]_vars

\* The event loop runs every coroutine that can run, every platform call
\* returns or raises, and time passes.
FairLifeSpec ==
    /\ LifeSpec
    /\ \A s \in Slots : WF_vars(HandlerStep(s))
    /\ \A i \in 1..MaxStarts : WF_vars(i \in DOMAIN kickTasks /\ KickStep(i))
    /\ WF_vars(Tick)

(***************************************************************************)
(* Vocabulary of the lifecycle claims.                                      *)
(***************************************************************************)
ConfiguredAdmin(uid) == ADMIN_CHAT_ID # EmptyStr /\ ADMIN_CHAT_ID = IntToStr(uid)
InLifecycle(h) == h.pc \in {"get_member", "set_member", "invite", "audit"}

\* C1: two terminal selections of one user that are in flight together never
\* both call set_chat_member and never both create a schedule_kick_user task.
C1_NoDoubleGrant ==
    \A s1 \in Slots : \A s2 \in Slots :
        (/\ s1 # s2
         /\ InFlight(handlers[s1])
         /\ InFlight(handlers[s2])
         /\ handlers[s1].user = handlers[s2].user)
        => /\ ~(handlers[s1].added /\ handlers[s2].added)
           /\ ~(handlers[s1].kick /\ handlers[s2].kick)

\* C2: of the interactions handed to a handler, no user has more than N within
\* any window of 60 seconds.
C2_AtMostNPerWindow ==
    \A i \in DOMAIN interactions :
        Cardinality({j \in DOMAIN interactions :
            /\ interactions[j].user = interactions[i].user
            /\ interactions[j].at >= interactions[i].at
            /\ interactions[j].at < interactions[i].at + 60})
          <= RateLimitN

C4_GrantedImpliesScheduled ==
    \A s \in Slots :
        (/\ handlers[s].pc = "final"
         /\ handlers[s].member
         /\ ~ConfiguredAdmin(handlers[s].user))
        => handlers[s].kick

\* The grant step of a selection of u has just succeeded: the handler is about
\* to post the audit message.
GrantSucceeded(u) ==
    /\ ~ConfiguredAdmin(u)
    /\ \E s \in Slots :
         handlers[s].user = u /\ handlers[s].pc = "audit" /\ handlers[s].member
KickCalledAfterDelay(u) ==
    \E i \in DOMAIN kickTasks :
        /\ kickTasks[i].user = u
        /\ kickTasks[i].pc = "calling"
        /\ kickTasks[i].calledAt >= kickTasks[i].wakeAt

\* The sleep of schedule_kick_user is never cut short: unban_chat_member is
\* not called before the delay has elapsed.
KickNotBeforeDelay ==
    \A i \in DOMAIN kickTasks :
        kickTasks[i].pc = "calling" => kickTasks[i].calledAt >= kickTasks[i].wakeAt

\* C5: whenever the grant of a user who is not the administrator has succeeded,
\* unban_chat_member is eventually called for that user, the delay having
\* elapsed.
C5_GrantLeadsToKick ==
    \A u \in Users : GrantSucceeded(u) ~> KickCalledAfterDelay(u)

C6_RaisedOnlyBeforeLifecycle ==
    \A s \in Slots :
        handlers[s].pc = "raised" => handlers[s].raisedAt \in {"answer", "decode", "show"}
C6_LifecycleEndsInFinal ==
    \A s \in Slots :
        (InLifecycle(handlers[s]) /\ handlers'[s] # handlers[s])
        => (InLifecycle(handlers'[s]) \/ handlers'[s].pc = "final")

\* C6: with the channel configured, no failure of get_chat_member,
\* set_chat_member, create_chat_invite_link or send_message leaves the
\* handler as an exception: from the membership check on, the handler moves
\* only within the lifecycle and from it to the final reply_text.
C6_PlatformFailuresContained ==
    [](C6_RaisedOnlyBeforeLifecycle) /\ [][C6_LifecycleEndsInFinal]_vars

\* C6 witness: the add failed, the invite link failed, the audit post failed,
\* and the handler is sending the final message.
C6_Witness ==
    \E s \in Slots :
        /\ handlers[s].pc = "final"
        /\ handlers[s].added
        /\ handlers[s].instr = [base |-> "FAIL_GENERAL", link |-> "no_link",
                                audit_failed |-> TRUE]

(***************************************************************************)
(* The empty string and the symbol table.                                  *)
(***************************************************************************)
\* C11: the empty string is never interned: STRING_TO_ID_MAP holds no entry
\* for it and no id of ID_TO_STRING_MAP resolves to it, in every reachable
\* state, after loading a table with empty cells included.
C11_EmptyNeverInterned ==
    /\ EmptyStr \notin DOMAIN STRING_TO_ID_MAP
    /\ \A id \in DOMAIN ID_TO_STRING_MAP : ID_TO_STRING_MAP[id] # EmptyStr

(***************************************************************************)
(* Startup: the module-level load of the data file (lines 44-68), then the  *)
(* navigation handlers once the module has been imported.                   *)
(***************************************************************************)
\* FileNotFoundError, the ValueError of the column check, any other Exception.
LoadErrors == {"file_not_found", "missing_column", "error"}

\* The mutant logs the error and lets the module go on.
AfterLoadErrorGoesOn(e) == [phase |-> "alive", error |-> e]

\* Lines 60-68: each except clause logs and raises SystemExit.
AfterLoadError(e) == [phase |-> "exited", error |-> e]

\* The module starts to execute: nothing read yet (lines 29-33).
StartupInit ==
    /\ InitGlobals(<<>>, EmptyStr, EmptyStr)
    /\ process = [phase |-> "importing", error |-> "none"]

\* pd.read_excel, the column check and the conversion (lines 45-51): the table
\* is assigned only when all three went through.
ReadExcel ==
    /\ process.phase = "importing"
    /\ \/ \E t \in NavTables : DATA_TABLE' = t /\ process' = NoLoadError
       \/ \E e \in LoadErrors : process' = AfterLoadError(e) /\ UNCHANGED DATA_TABLE
    /\ UNCHANGED <<symVars, loadPos, cfgVars, welcomeVars, navVars, lifeVars>>

\* An exception inside the startup loop (lines 54-57) is caught at line 66.
LoadAbort ==
    /\ Alive
    /\ loadPos < Len(DATA_TABLE)
    /\ process' = AfterLoadError("error")
    /\ UNCHANGED <<DATA_TABLE, symVars, loadPos, cfgVars, welcomeVars, navVars, lifeVars>>

StartupNext == ReadExcel \/ LoadRow \/ LoadAbort \/ NavStart \/ NavPress

StartupSpec == StartupInit /\ [][StartupNext]_vars

\* C12: a failure of the startup load (file absent, a required column
\* missing, any other error) ends the process: no handler has run or ever
\* runs, and whatever interaction is served is served by a process whose load
\* raised nothing and interned the whole table.
C12_StartupErrorsFatal ==
    /\ process.error # "none" =>
         /\ process.phase = "exited"
         /\ request = NoRequest
         /\ reply = NoReply
         /\ \A s \in Slots : handlers[s] = IdleHandler
    /\ request # NoRequest => (process = NoLoadError /\ loadPos = Len(DATA_TABLE))

\* C12 witness: the data file was absent and the process has exited.
C12_Witness ==
    /\ process = [phase |-> "exited", error |-> "file_not_found"]
    /\ DATA_TABLE = <<>>

\* The load failed in the middle of the table, leaving it partly interned.
C12_WitnessPartial ==
    /\ process.phase = "exited"
    /\ loadPos > 0
    /\ loadPos < Len(DATA_TABLE)

\* C13: whatever payload a button press carries, tokens that are no integers
\* and an unknown level included, handle_button_press ends by sending the
\* user a message and no exception leaves it.
C13_EveryPressAnswered ==
    request.type = "button" =>
        reply.kind \in {"next", "no_info", "terminal", "unknown"}

(***************************************************************************)
(* The revocation task and the handler that created it.                    *)
(***************************************************************************)
KeepsTasks ==
    /\ Len(kickTasks') >= Len(kickTasks)
    /\ \A i \in DOMAIN kickTasks : kickTasks'[i] = kickTasks[i]
C14_HandlerGoesOn ==
    \A s \in Slots :
        /\ (handlers[s].pc = "audit" /\ handlers'[s] # handlers[s])
              => handlers'[s].pc = "final"
        /\ (handlers[s].pc = "final" /\ handlers'[s] # handlers[s])
              => handlers'[s].pc = "done"
C14_NeverHeldUp ==
    /\ \A s \in Slots : handlers[s].pc = "final" => ENABLED FinalStep(s)
    /\ \A i \in DOMAIN kickTasks :
         (kickTasks[i].pc = "sleeping" /\ now >= kickTasks[i].wakeAt)
            => ENABLED KickCall(i)

\* C14: the revocation runs detached.  From the audit post the handler goes
\* straight on to the final message and from there to its end, whatever the
\* state of the task it created; the final message can always be sent; no
\* step of a handler changes or removes a task that exists; and a task whose
\* delay is over can always make its call.
C14_DetachedRevocation ==
    /\ [][C14_HandlerGoesOn]_vars
    /\ [][handlers' # handlers => KeepsTasks]_vars
    /\ [](C14_NeverHeldUp)

\* C14 witness: the handler has sent the final message and is over while the
\* task it created is still asleep, the delay not yet elapsed.
C14_Witness ==
    \E s \in Slots : \E i \in DOMAIN kickTasks :
        /\ handlers[s].pc = "done"
        /\ handlers[s].final = "sent"
        /\ kickTasks[i].user = handlers[s].user
        /\ kickTasks[i].pc = "sleeping"
        /\ now < kickTasks[i].wakeAt

(***************************************************************************)
(* The payloads of the buttons the bot emits.                              *)
(***************************************************************************)
Tokens(data) == SplitColon(data, <<>>, <<>>)
Decodes(data, level, key_id, rep1_id, rep2_id) ==
    /\ Len(Tokens(data)) = 4
    /\ ParseData(data) = [raised |-> FALSE, level |-> level, key_id |-> key_id,
                          rep1_id |-> rep1_id, rep2_id |-> rep2_id]
IdOfLabel(b) == STRING_TO_ID_MAP[b.text]

\* Ids of more digits than a table of MaxRows rows can intern.
WideIds == {10, 109}

\* C15: every payload the bot emits has exactly four colon-separated tokens,
\* and handle_button_press decodes it to the level and the ids that were
\* encoded: the id of the button's label at its own level, the ids of the
\* press that led to it at the levels above, -1 at the levels below.
\* The same holds of the three formats on ids of several digits.
C15_PayloadRoundTrip ==
    /\ \A n \in WideIds :
         /\ Decodes(KeyCallbackData(n), LEVEL_KEY, n, -1, -1)
         /\ Decodes(Rep1CallbackData(n, n + 1), LEVEL_REP1, n, n + 1, -1)
         /\ Decodes(Rep2CallbackData(n + 2, n + 1, n), LEVEL_REP2, n + 2, n + 1, n)
    /\ \A i \in DOMAIN reply.keyboard :
        LET b == reply.keyboard[i] IN
        /\ b.text \in DOMAIN STRING_TO_ID_MAP
        /\ IF request.type = "start"
           THEN Decodes(b.callback_data, LEVEL_KEY, IdOfLabel(b), -1, -1)
           ELSE IF PressedAt(LEVEL_KEY)
           THEN Decodes(b.callback_data, LEVEL_REP1, Pressed.key_id, IdOfLabel(b), -1)
           ELSE /\ PressedAt(LEVEL_REP1)
                /\ Decodes(b.callback_data, LEVEL_REP2, Pressed.key_id,
                           Pressed.rep1_id, IdOfLabel(b))

\* C15 witness: a rep2-level button whose payload carries three different ids.
C15_Witness ==
    \E i \in DOMAIN reply.keyboard :
        LET p == ParseData(reply.keyboard[i].callback_data) IN
        /\ p.level = LEVEL_REP2
        /\ p.key_id # p.rep1_id
        /\ p.rep1_id # p.rep2_id
        /\ p.key_id # p.rep2_id

\* A rep1-level button emitted after a key-level press, with two different ids.
C15_WitnessRep1 ==
    /\ PressedAt(LEVEL_KEY)
    /\ \E i \in DOMAIN reply.keyboard :
         LET p == ParseData(reply.keyboard[i].callback_data) IN
         p.level = LEVEL_REP1 /\ p.key_id # p.rep1_id

(***************************************************************************)
(* Rows with an empty Key.                                                 *)
(***************************************************************************)
EncodesEmpty(data) ==
    LET p == ParseData(data) IN
    \/ StandsFor(p.key_id, EmptyStr)
    \/ StandsFor(p.rep1_id, EmptyStr)
    \/ StandsFor(p.rep2_id, EmptyStr)
EmptyKeyRows == {i \in DOMAIN DATA_TABLE : DATA_TABLE[i].Key = EmptyStr}

Answered == request.type = "button" /\ ~Pressed.raised

\* C17 as claimed: at each of the three levels an id that is not in the
\* symbol table resolves to the empty string.
C17_UnknownIdResolvesToEmpty ==
    Answered =>
        /\ ~Resolves(Pressed.key_id) => KeyDisplay(SymTable, Pressed.key_id) = EmptyStr
        /\ ~Resolves(Pressed.rep1_id) => Rep1Display(SymTable, Pressed.rep1_id) = EmptyStr
        /\ ~Resolves(Pressed.rep2_id) => Rep2Display(SymTable, Pressed.rep2_id) = EmptyStr

\* "ID_Key:", "ID_Rep1:", "ID_Rep2:" followed by the id; at the rep1 and rep2
\* levels the -1 of an absent token gives the empty string.
PlaceholderKey(id) == <<73, 68, 95, 75, 101, 121, 58>> \o IntToStr(id)
PlaceholderRep1(id) ==
    IF id = -1 THEN EmptyStr ELSE <<73, 68, 95, 82, 101, 112, 49, 58>> \o IntToStr(id)
PlaceholderRep2(id) ==
    IF id = -1 THEN EmptyStr ELSE <<73, 68, 95, 82, 101, 112, 50, 58>> \o IntToStr(id)

\* C17 as amended: at each of the three levels an id that is not in the
\* symbol table resolves to the placeholder "ID_<level>:<id>" (at the rep1
\* and rep2 levels, to the empty string when the id is the -1 of an absent
\* token), never to an error: the press is answered, and the key and rep1
\* levels echo what the id resolved to.
C17_UnknownIdResolvesToPlaceholder ==
    Answered =>
        /\ ~Resolves(Pressed.key_id) =>
              KeyDisplay(SymTable, Pressed.key_id) = PlaceholderKey(Pressed.key_id)
        /\ ~Resolves(Pressed.rep1_id) =>
              Rep1Display(SymTable, Pressed.rep1_id) = PlaceholderRep1(Pressed.rep1_id)
        /\ ~Resolves(Pressed.rep2_id) =>
              Rep2Display(SymTable, Pressed.rep2_id) = PlaceholderRep2(Pressed.rep2_id)
        /\ reply.kind \in {"next", "no_info", "terminal", "unknown"}
        /\ (PressedAt(LEVEL_KEY) /\ ~Resolves(Pressed.key_id)) =>
              reply.text = PlaceholderKey(Pressed.key_id)
        /\ (PressedAt(LEVEL_REP1) /\ ~Resolves(Pressed.rep1_id)) =>
              reply.text = PlaceholderRep1(Pressed.rep1_id)

\* C17 witness: a key-level press with the id 3, which no table of the model
\* interns, was answered "no information" with the echo "ID_Key:3".
C17_Witness ==
    /\ PressedAt(LEVEL_KEY)
    /\ Pressed.key_id = 3
    /\ ~Resolves(3)
    /\ reply.kind = "no_info"
    /\ reply.text = <<73, 68, 95, 75, 101, 121, 58, 51>>

\* A rep1-level press with an unknown rep1 id other than -1.
C17_WitnessRep1 ==
    /\ PressedAt(LEVEL_REP1)
    /\ Pressed.rep1_id = 3
    /\ ~Resolves(3)
    /\ reply.text = <<73, 68, 95, 82, 101, 112, 49, 58, 51>>

(***************************************************************************)
(* The grant of a user who is a member already.                            *)
(***************************************************************************)
\* get_chat_member reported a member status, or a call reported "user is
\* already a member of the chat" (lines 260-262, 277-279).
AlreadyMember(h) == h.instr.base = "ALREADY_MEMBER"

\* What the code does for a member: no call to set_chat_member follows, the
\* grant counts as made, no invite link is made, the audit post comes next,
\* and the task is created exactly when the audit post was sent.
AlreadyMemberIsSuccess ==
    \A s \in Slots :
        AlreadyMember(handlers[s]) =>
            /\ handlers[s].member
            /\ handlers[s].pc \in {"audit", "final"}
            /\ handlers[s].instr.link = "none"
            /\ handlers[s].pc = "final" =>
                 (handlers[s].kick <=> ~handlers[s].instr.audit_failed)

\* C18: when the user is found to be a member already, no further add-member
\* call is issued, the grant counts as made, the flow goes on to the audit
\* post and, for a user who is not the administrator, to the scheduling of the
\* revocation: by the final message the task has been created.
C18_IdempotentGrant ==
    \A s \in Slots :
        AlreadyMember(handlers[s]) =>
            /\ handlers[s].member
            /\ handlers[s].pc \in {"audit", "final"}
            /\ (handlers[s].pc = "final" /\ ~ConfiguredAdmin(handlers[s].user))
                  => handlers[s].kick

(***************************************************************************)
(* The order of the lifecycle.                                             *)
(***************************************************************************)
ChannelConfigured == CHANNEL_CHAT_ID # EmptyStr
Showing(h) == h.pc \in {"show", "show_retry"}
Granting(h) == h.pc \in {"get_member", "set_member", "invite"}

\* The audit post has been attempted once when the final message is due, and
\* not before the grant attempt is over.
C19_AuditCount ==
    \A s \in Slots :
        /\ (Showing(handlers[s]) \/ Granting(handlers[s]) \/ handlers[s].pc = "audit")
              => handlers[s].audits = 0
        /\ (ChannelConfigured /\ handlers[s].pc = "final") => handlers[s].audits = 1

\* Each step of a handler keeps the order: the grant attempt starts when the
\* value has been shown, the audit post follows the grant attempt, the final
\* message follows the audit post.
C19_Order ==
    \A s \in Slots :
        (ChannelConfigured /\ handlers'[s] # handlers[s]) =>
            /\ handlers'[s].pc = "get_member" => Showing(handlers[s])
            /\ Granting(handlers[s]) =>
                  (Granting(handlers'[s]) \/ handlers'[s].pc = "audit")
            /\ handlers'[s].pc = "audit" => Granting(handlers[s])
            /\ handlers[s].pc = "audit" => handlers'[s].pc = "final"
            /\ handlers'[s].pc = "final" => handlers[s].pc = "audit"

\* C19: with the channel configured, once the terminal value has been shown
\* the audit post is attempted exactly once, whatever the grant step came to
\* (added, already a member, failed), and in this order: value shown, grant
\* attempt, audit post, final message.
C19_AuditOnceInOrder ==
    [](C19_AuditCount) /\ [][C19_Order]_vars

\* C19 witness: the grant failed, an invite link was made, the audit post was
\* attempted once and the final message is due.
C19_Witness ==
    \E s \in Slots :
        /\ ChannelConfigured
        /\ handlers[s].pc = "final"
        /\ handlers[s].audits = 1
        /\ handlers[s].instr.base = "FAIL_NOT_ADDED"
        /\ handlers[s].instr.link = "link"

(***************************************************************************)
(* The administrator and unban_chat_member.                                *)
(***************************************************************************)
\* C20: with an administrator id configured, unban_chat_member is never
\* called for that id, whatever selections any users have made.
C20_AdminNeverRemoved ==
    \A i \in DOMAIN kickTasks :
        kickTasks[i].pc = "calling" => ~ConfiguredAdmin(kickTasks[i].user)

\* C20 witness: the administrator and another user have both been granted;
\* the administrator's task has returned without a call while
\* unban_chat_member is being called for the other user.
C20_Witness ==
    \E i \in DOMAIN kickTasks : \E j \in DOMAIN kickTasks :
        /\ ConfiguredAdmin(kickTasks[i].user)
        /\ kickTasks[i].pc = "skipped"
        /\ ~ConfiguredAdmin(kickTasks[j].user)
        /\ kickTasks[j].pc = "calling"

(***************************************************************************)
(* The greeting: handle_message (lines 117-130) and start (lines 133-141), *)
(* with welcomed_users (line 96).  Each webhook request runs its handler   *)
(* as a coroutine of its own, so the handlers of one user interleave at    *)
(* their awaits.  A handler record:                                        *)
(*   pc    idle, greet (awaiting the reply_text of                         *)
(*         send_initial_key_buttons), unrecognized (awaiting the           *)
(*         reply_text of line 128), done, raised                           *)
(*   kind  message or start                                                *)
(*   sent  what the user received from this handler                        *)
(***************************************************************************)
FreeMsgSlots == {s \in Slots : msgHandlers[s].pc \in {"idle", "done", "raised"}}

SetMsgHandler(s, h) == msgHandlers' = [msgHandlers EXCEPT ![s] = h]

\* handle_message up to its first await (lines 118-120, 126-128): the
\* membership test, and for a user not in the set the keyboard of
\* send_initial_key_buttons (lines 100-109).
MessageArrive(u) ==
    /\ Loaded
    /\ updates < MaxUpdates
    /\ \E s \in FreeMsgSlots :
          IF u \notin welcomed_users
          THEN /\ SetMsgHandler(s, [pc |-> "greet", kind |-> "message", user |-> u,
                                    sent |-> "none"])
               /\ SetSymTable(send_initial_key_buttons(SymTable, DATA_TABLE).st)
          ELSE /\ SetMsgHandler(s, [pc |-> "unrecognized", kind |-> "message",
                                    user |-> u, sent |-> "none"])
               /\ UNCHANGED symVars
    /\ updates' = updates + 1
    /\ UNCHANGED <<DATA_TABLE, loadPos, cfgVars, process, welcomed_users, greetings,
                   navVars, lifeVars>>

\* The greeting of handle_message went out: line 121 adds the user.
MessageGreeted(s) ==
    /\ msgHandlers[s].kind = "message"
    /\ msgHandlers[s].pc = "greet"
    /\ SetMsgHandler(s, [msgHandlers[s] EXCEPT !.pc = "done", !.sent = "greeting"])
    /\ welcomed_users' = welcomed_users \cup {msgHandlers[s].user}
    /\ greetings' = [greetings EXCEPT ![msgHandlers[s].user] = @ + 1]
    /\ UNCHANGED <<DATA_TABLE, symVars, loadPos, cfgVars, process, updates, navVars,
                   lifeVars>>

\* The reply of line 128 went out.
MessageUnrecognized(s) ==
    /\ msgHandlers[s].kind = "message"
    /\ msgHandlers[s].pc = "unrecognized"
    /\ SetMsgHandler(s, [msgHandlers[s] EXCEPT !.pc = "done", !.sent = "unrecognized"])
    /\ UNCHANGED <<DATA_TABLE, symVars, loadPos, cfgVars, process, welcomed_users,
                   greetings, updates, navVars, lifeVars>>

\* start up to its await (lines 134-140): the user leaves the set, and the
\* greetings counted for the user start anew.
StartArrive(u) ==
    /\ Loaded
    /\ updates < MaxUpdates
    /\ \E s \in FreeMsgSlots :
          SetMsgHandler(s, [pc |-> "greet", kind |-> "start", user |-> u,
                            sent |-> "none"])
    /\ SetSymTable(send_initial_key_buttons(SymTable, DATA_TABLE).st)
    /\ welcomed_users' = welcomed_users \ {u}
    /\ greetings' = [greetings EXCEPT ![u] = 0]
    /\ updates' = updates + 1
    /\ UNCHANGED <<DATA_TABLE, loadPos, cfgVars, process, navVars, lifeVars>>

\* The greeting of start went out: line 141 adds the user.
StartGreeted(s) ==
    /\ msgHandlers[s].kind = "start"
    /\ msgHandlers[s].pc = "greet"
    /\ SetMsgHandler(s, [msgHandlers[s] EXCEPT !.pc = "done", !.sent = "greeting"])
    /\ welcomed_users' = welcomed_users \cup {msgHandlers[s].user}
    /\ UNCHANGED <<DATA_TABLE, symVars, loadPos, cfgVars, process, greetings, updates,
                   navVars, lifeVars>>

\* reply_text raised (lines 113, 128): the exception leaves the handler, and
\* the add of line 121 or 141 is not reached.
MessageRaise(s) ==
    /\ msgHandlers[s].pc \in {"greet", "unrecognized"}
    /\ SetMsgHandler(s, [msgHandlers[s] EXCEPT !.pc = "raised"])
    /\ UNCHANGED <<DATA_TABLE, symVars, loadPos, cfgVars, process, welcomed_users,
                   greetings, updates, navVars, lifeVars>>

WelcomeInit == InitWith(LifeTable, EmptyStr, EmptyStr)

WelcomeNext ==
    \/ LoadRow
    \/ \E u \in Users : MessageArrive(u)
    \/ \E u \in Users : StartArrive(u)
    \/ \E s \in Slots : MessageGreeted(s)
    \/ \E s \in Slots : MessageUnrecognized(s)
    \/ \E s \in Slots : StartGreeted(s)
    \/ \E s \in Slots : MessageRaise(s)

WelcomeSpec == WelcomeInit /\ [][WelcomeNext]_vars

\* C21: between two /start commands of a user, the user's text messages are
\* answered with the greeting at most once, whatever the interleaving of the
\* user's handlers.
C21_GreetedOnce == \A u \in Users : greetings[u] <= 1

\* C21, the part about /start: when the greeting of start went out, the user
\* is in welcomed_users.
C21_StartEndsWelcomed ==
    [][\A s \in Slots :
          (msgHandlers[s].kind = "start" /\ msgHandlers[s].pc = "greet"
             /\ msgHandlers'[s].pc = "done")
          => msgHandlers[s].user \in welcomed_users']_vars

\* C21, the part about later messages: a text message that arrives while the
\* user is in welcomed_users gets the reply of line 128.
C21_WelcomedGetsUnrecognized ==
    [][\A s \in Slots : \A u \in Users :
          (u \in welcomed_users /\ msgHandlers[s] # msgHandlers'[s]
             /\ msgHandlers'[s].kind = "message" /\ msgHandlers'[s].user = u
             /\ msgHandlers[s].pc \in {"idle", "done", "raised"})
          => msgHandlers'[s].pc = "unrecognized"]_vars

\* Two text messages of one user were both answered with the greeting, and
\* no /start of that user came in between.
C21_TwiceGreeted ==
    \E u \in Users :
        /\ greetings[u] = 2
        /\ \A s \in Slots :
              /\ msgHandlers[s].kind = "message"
              /\ msgHandlers[s].user = u
              /\ msgHandlers[s].sent = "greeting"

\* C22: once the startup loop is over, no handler changes the data table or
\* the symbol table: whatever text message, /start or button payload comes in
\* (ids that resolve to nothing included), DATA_TABLE, STRING_TO_ID_MAP,
\* ID_TO_STRING_MAP and next_id are after the step what they were before it.
C22_HandlersLeaveTables ==
    [][Loaded => UNCHANGED <<DATA_TABLE, STRING_TO_ID_MAP, ID_TO_STRING_MAP, next_id>>]_vars

\* C22 witness: after the load of a full table, a rep1-level press whose
\* rep1 id resolves to nothing was handled, and the handler went through the
\* rows (it found no Rep2 to offer).
C22_Witness ==
    /\ Loaded
    /\ Len(DATA_TABLE) = MaxRows
    /\ next_id > 0
    /\ PressedAt(LEVEL_REP1)
    /\ Resolves(Pressed.key_id)
    /\ ~Resolves(Pressed.rep1_id)
    /\ reply.kind = "no_info"

\* A /start was served after the load of a table with a key to show.
C22_WitnessStart ==
    /\ Loaded
    /\ request.type = "start"
    /\ reply.kind = "menu"
    /\ reply.keyboard # <<>>

(***************************************************************************)
(* The lifecycle of a press that matched no row.                           *)
(***************************************************************************)
\* A well-formed rep2-level payload whose three ids are those of no row.
NoRowMatches(data) ==
    LET p == ParseData(data) IN
    /\ ~p.raised
    /\ p.level = LEVEL_REP2
    /\ MatchingRows(p.key_id, p.rep1_id, p.rep2_id) = {}

\* One step of a handler through lines 245-328, the same for every value
\* shown: from the value to the membership check, from the grant attempt to
\* the audit post of message_to_channel (line 243, built from the value the
\* handler holds), and there a revocation task exactly when the post went
\* through for a member.
LifecycleStep(h, h2) ==
    /\ h2.pc # "raised" => h2.text = h.text
    /\ Showing(h) => h2.pc \in {"show_retry", "get_member", "raised"}
    /\ Granting(h) => (Granting(h2) \/ h2.pc = "audit")
    /\ h.pc = "audit" =>
          /\ h2.pc = "final"
          /\ h2.audits = h.audits + 1
          /\ h2.kick <=> (h.member /\ ~h2.instr.audit_failed)
          /\ kickTasks' = IF h2.kick THEN Append(kickTasks, NewKickTask(h.user))
                          ELSE kickTasks

\* C23: with the channel configured, a rep2-level press whose ids match no
\* row goes on with the 'not found' text as its value, and from there takes
\* the steps every terminal selection takes: membership check and grant,
\* audit post carrying the value, and a revocation task when the post went
\* through for a member.
C23_NotFoundRunsLifecycle ==
    [][\A s \in Slots :
          (ChannelConfigured /\ handlers'[s] # handlers[s]) =>
              /\ (handlers[s].pc = "answer" /\ NoRowMatches(handlers[s].data)
                    /\ handlers'[s].pc # "raised")
                 => (handlers'[s].pc = "show" /\ handlers'[s].text = NOT_FOUND_TEXT)
              /\ (Showing(handlers[s]) \/ Granting(handlers[s])
                    \/ handlers[s].pc = "audit")
                 => LifecycleStep(handlers[s], handlers'[s])]_vars

\* C23 witness: a press that matched no row was shown 'not found', the user
\* was added to the channel, the audit post went through and a revocation
\* task for the user exists.
C23_Witness ==
    \E s \in Slots :
        /\ ChannelConfigured
        /\ handlers[s].pc = "final"
        /\ handlers[s].text = NOT_FOUND_TEXT
        /\ handlers[s].added
        /\ handlers[s].audits = 1
        /\ handlers[s].kick
        /\ \E i \in DOMAIN kickTasks : kickTasks[i].user = handlers[s].user

(***************************************************************************)
(* Two selections at different times: the lifecycle with a clock that      *)
(* steps by half the delay, and presses up to half a delay after the       *)
(* first.                                                                  *)
(***************************************************************************)
LateInit ==
    \E admin \in {EmptyStr, IntToStr(1)} : InitWith(LifeTable, ChannelId, admin)

LateNext ==
    \/ LoadRow
    \/ \E u \in Users : PressUntil(u, Rep2CallbackData(0, 0, 1), LateMaxTime)
    \/ \E s \in Slots : HandlerStep(s)
    \/ \E i \in DOMAIN kickTasks : KickStep(i)
    \/ TickBy(LateTickSeconds)

LateSpec == LateInit /\ [][LateNext]_vars

\* No step takes a task away or hands it to another user; the delay of a task
\* is counted from the moment the task starts to sleep; a sleeping task goes
\* on sleeping with the same wake-up time until it makes its call, and makes
\* it no earlier than that time.
C24_TaskStands ==
    \A i \in DOMAIN kickTasks :
        /\ i \in DOMAIN kickTasks'
        /\ kickTasks'[i].user = kickTasks[i].user
        /\ (kickTasks[i].pc = "created" /\ kickTasks'[i].pc # "created") =>
              \/ kickTasks'[i].pc = "skipped"
              \/ /\ kickTasks'[i].pc = "sleeping"
                 /\ kickTasks'[i].wakeAt = now + KICK_DELAY_SECONDS
        /\ kickTasks[i].pc = "sleeping" =>
              \/ kickTasks'[i] = kickTasks[i]
              \/ /\ kickTasks'[i].pc = "calling"
                 /\ kickTasks'[i].calledAt = now
                 /\ now >= kickTasks[i].wakeAt

\* A task whose own delay is over can make its call, whatever other tasks of
\* the same user are pending.
C24_CallDue ==
    \A i \in DOMAIN kickTasks :
        (kickTasks[i].pc = "sleeping" /\ now >= kickTasks[i].wakeAt)
            => ENABLED KickCall(i)

\* C24: a pending revocation is not cancelled, replaced or postponed by what
\* comes later.  When the same user makes a second selection before the first
\* revocation fires, the first task keeps its wake-up time, one delay after it
\* started, a second task is added beside it, and the first remove-member
\* call can be made as soon as the first delay is over.
C24_PendingRevocationStands ==
    /\ [][C24_TaskStands]_vars
    /\ [](C24_CallDue)

\* C24 witness: the user who is not the administrator selected at time 0 and
\* again half a delay later; the first task makes its call one delay after
\* the first selection while the second is still asleep, due half a delay
\* later.
C24_Witness ==
    /\ Len(interactions) = 2
    /\ interactions[1].user = interactions[2].user
    /\ ~ConfiguredAdmin(interactions[1].user)
    /\ interactions[1].at = 0
    /\ interactions[2].at = LateMaxTime
    /\ Len(kickTasks) = 2
    /\ kickTasks[1].user = interactions[1].user
    /\ kickTasks[2].user = interactions[1].user
    /\ kickTasks[1].pc = "calling"
    /\ kickTasks[1].calledAt = interactions[1].at + KICK_DELAY_SECONDS
    /\ kickTasks[2].pc = "sleeping"
    /\ kickTasks[2].wakeAt = interactions[2].at + KICK_DELAY_SECONDS
    /\ now < kickTasks[2].wakeAt

====
